---- MODULE Spec2Model ----
(***************************************************************************)
(* A model of the Zoho check-in automation:                                *)
(*   - scripts/zohoCheckin.js : one automation run (performZohoCheckin,    *)
(*     handleGoogleLogin, handlePasswordLogin, the main entry);            *)
(*   - the monitor (unnamed/part_002): the per-minute polling scheduler;   *)
(*   - the Wi-Fi checker (unnamed/part_001): isOnOfficeWiFi.               *)
(* Three specifications share the variables: Spec (one run), SpecSched     *)
(* (the polling loop) and SpecWifi (the Wi-Fi gate as a pure function).    *)
(***************************************************************************)
EXTENDS Integers, Sequences, FiniteSets, TLC

(***************************************************************************)
(* Bounds of the model (not program constants).                            *)
(***************************************************************************)
\* length of the action selector list (CHECKIN_SELECTORS may hold any number)
NumActionSelectors == 3
\* length of the OAuth selector list (GOOGLE_LOGIN_SELECTORS likewise)
NumGoogleSelectors == 3
\* the monitor is observed over the dates 0..MaxDate
MaxDate == 1
\* longest configured OFFICE_WIFI_SSID string, in characters
MaxExpectedLen == 4
\* longest detected network name, in characters
MaxNameLen == 2

VARIABLES
  \* ---- one automation run (scripts/zohoCheckin.js) ----
  env,                \* process.env as the run sees it
  launcher,           \* who started the run: "monitor", "wrapper" or "manual"
  savedStateFile,     \* fs.existsSync(STORAGE_STATE_PATH)
  pc,                 \* position in performZohoCheckin / main
  exitCode,           \* -1 while the process runs, else the exit code
  browser,            \* outer `browser` of performZohoCheckin
  persistentContext,  \* outer `persistentContext` (line 40)
  innerContext,       \* inner, shadowing `persistentContext` (line 78)
  screenshots,        \* names of the screenshots written so far
  steps,              \* the steps of the run that have been entered
  error,              \* the exception that reached the catch block
  selIdx,             \* index of the selector loop in progress
  googleButtonFound,  \* handleGoogleLogin's flag
  googleFirstVisible, \* first OAuth selector that showed a visible element
  googleClicked,      \* OAuth selector whose element was clicked
  actionPerformed,    \* step 7's flag
  actionType,         \* step 7's classification
  actionFirstVisible, \* first action selector that showed a visible element
  actionClicked,      \* action selector whose element was clicked
  actionClicks,       \* clicks on an action control so far
  pageGone,           \* the page was closed or has crashed under the scan
  pw,                 \* locals of handlePasswordLogin
  urlMarker,          \* whether the address read at step 5, and the one read
                      \* after the login attempt, held a login-page marker
  wifiGate,           \* outcome of the Wi-Fi gate for this run
  \* ---- the monitor (unnamed/part_002) ----
  clock,              \* wall clock at the last timer tick, in minutes
  epochDay,           \* day of the week of date 0 (0 = Sunday)
  lastCheckinDate,    \* module variable of the monitor (line 31)
  lastCheckoutDate,   \* module variable of the monitor (line 32)
  spawned,            \* runs spawned so far, per target and date
  matches,            \* ticks that matched the target's time, per target and
                      \* date: none, one or several
  resets,             \* dates on which the midnight reset ran
  children,           \* child processes spawned that have emitted neither
                      \* 'exit' nor 'error' yet
  lastChildEvent,     \* what the child handlers logged last
  \* ---- the Wi-Fi checker (unnamed/part_001) ----
  expectedSSIDs,      \* the argument of isOnOfficeWiFi
  wifiPc,             \* position in isOnOfficeWiFi / getCurrentWiFiSSID
  mechanism,          \* the OS query mechanism getCurrentWiFiSSID is at
  wifiInterface,      \* getCurrentWiFiSSID's local of line 16
  probeLog,           \* the mechanisms tried so far in this call that gave
                      \* no name, in the order they were tried
  currentSSID,        \* what getCurrentWiFiSSID returned
  wifiResult          \* what isOnOfficeWiFi returned

runVars == <<env, launcher, savedStateFile, pc, exitCode, browser,
             persistentContext, innerContext, screenshots, steps, error,
             selIdx, googleButtonFound, googleFirstVisible, googleClicked,
             actionPerformed, actionType, actionFirstVisible, actionClicked,
             actionClicks, pageGone, pw, urlMarker, wifiGate>>

schedVars == <<clock, epochDay, lastCheckinDate, lastCheckoutDate, spawned,
               matches, resets, children, lastChildEvent>>

wifiVars == <<expectedSSIDs, wifiPc, mechanism, wifiInterface, probeLog,
              currentSSID, wifiResult>>

vars == <<runVars, schedVars, wifiVars>>

(***************************************************************************)
(* JavaScript values.                                                      *)
(***************************************************************************)
Undefined == "<undefined>"
Null == "<null>"

\* JavaScript truthiness of an environment value (a string or undefined)
Truthy(v) == v # Undefined /\ v # ""

(***************************************************************************)
(* Configuration, zohoCheckin.js lines 15-21 and 54.                       *)
(***************************************************************************)
ZOHO_EMAIL == env.ZOHO_EMAIL
ZOHO_PASSWORD == env.ZOHO_PASSWORD
\* an OAuth selection that only looks at the explicit flag
UseGoogleLoginExplicitOnly == env.USE_GOOGLE_LOGIN = "true"
\* line 18
USE_GOOGLE_LOGIN == env.USE_GOOGLE_LOGIN = "true" \/ ~Truthy(ZOHO_PASSWORD)
USE_PERSISTENT_CONTEXT == env.USE_PERSISTENT_CONTEXT # "false"
useHeadless == env.HEADLESS = "true"

\* the environments a launcher can hand to the run
Environments(l) ==
  [ ZOHO_EMAIL : {Undefined, "", "user@example.com"},
    ZOHO_PASSWORD : {Undefined, "secret"},
    USE_GOOGLE_LOGIN : {Undefined, "true"},
    USE_PERSISTENT_CONTEXT : {Undefined, "false"},
    HEADED : {Undefined, "true"},
    OFFICE_WIFI_SSID : {Undefined, "Office"},
    \* runCheckinScript overrides HEADLESS with 'false' (part_002 line 104)
    HEADLESS : IF l = "monitor" THEN {"false"} ELSE {Undefined, "true"} ]

Launchers == {"monitor", "wrapper", "manual"}

(***************************************************************************)
(* URLs, by the substrings the code looks for.                             *)
(***************************************************************************)
Urls == { {"signin"}, {"login"}, {"people.zoho.com"},
          {"people.zoho.com", "myspace"}, {} }

includes(s, marker) == marker \in s

\* the login-page markers of an address, as the properties observe them
MarkerIn(url) ==
  IF "signin" \in url \/ "login" \in url THEN "marker" ELSE "no_marker"

\* a login test that also wants the portal's host in the address
IsLoggedInOnPortalOnly(url) ==
  /\ ~includes(url, "signin")
  /\ ~includes(url, "login")
  /\ includes(url, "people.zoho.com")

\* line 289
IsLoggedIn(url) == ~includes(url, "signin") /\ ~includes(url, "login")

\* line 309
StillOnLoginPage(url) == includes(url, "signin") \/ includes(url, "login")

\* line 342
NeedsCheckinNavigation(url) ==
  ~includes(url, "people.zoho.com") \/ ~includes(url, "myspace")

(***************************************************************************)
(* Helpers for the run.                                                    *)
(***************************************************************************)
\* process.exit(code): the process ends there; no finally block runs
Exit(code) ==
  /\ pc' = "exited"
  /\ exitCode' = code

\* an exception thrown inside the try block of performZohoCheckin
Throw(e) ==
  /\ pc' = "catch"
  /\ error' = e

googleVars == <<googleButtonFound, googleFirstVisible, googleClicked>>
actionVars == <<actionPerformed, actionType, actionFirstVisible, actionClicked,
                actionClicks, pageGone>>
scanVars == <<selIdx, googleVars, actionVars, pw>>
\* what no step of a run changes: its configuration, and the other components
cfgVars == <<env, launcher, savedStateFile, wifiGate, schedVars, wifiVars>>
engineVars == <<browser, persistentContext, innerContext>>

\* the locals of handlePasswordLogin before it is entered and after it returned
NoPasswordLogin ==
  [emailFilled |-> 0, emailFirstVisible |-> 0, emailFirstPresent |-> 0,
   nextClicks |-> 0, passwordFilled |-> 0, passwordFirstVisible |-> 0,
   submitted |-> "no"]

InitRun ==
  /\ launcher \in Launchers
  /\ env \in Environments(launcher)
  /\ savedStateFile \in BOOLEAN
  /\ pc = "start"
  /\ exitCode = -1
  /\ browser = Null
  /\ persistentContext = Null
  /\ innerContext = Null
  /\ screenshots = {}
  /\ steps = {}
  /\ error = "none"
  /\ selIdx = 0
  /\ googleButtonFound = FALSE
  /\ googleFirstVisible = 0
  /\ googleClicked = 0
  /\ actionPerformed = FALSE
  /\ actionType = "unknown"
  /\ actionFirstVisible = 0
  /\ actionClicked = 0
  /\ actionClicks = 0
  /\ pageGone = FALSE
  /\ pw = NoPasswordLogin
  /\ urlMarker = [landing |-> "unread", postLogin |-> "unread"]
  /\ wifiGate = "not_evaluated"

(***************************************************************************)
(* performZohoCheckin, steps 1 to 5.                                       *)
(***************************************************************************)
\* a validation that only notices an unset variable, not an empty one
EmailMissingUnsetOnly == ZOHO_EMAIL = Undefined

\* line 44
EmailMissing == ~Truthy(ZOHO_EMAIL)

\* Step 1, lines 43-47
ValidateEmail ==
  /\ pc = "start"
  /\ steps' = steps \cup {"validate"}
  /\ IF EmailMissing
       THEN Exit(1)
       ELSE pc' = "check_saved_state" /\ UNCHANGED exitCode
  /\ UNCHANGED <<cfgVars, urlMarker, engineVars, scanVars, screenshots, error>>

\* Step 2, lines 49-72
CheckSavedState ==
  /\ pc = "check_saved_state"
  /\ IF ~savedStateFile /\ ~USE_GOOGLE_LOGIN /\ ~Truthy(ZOHO_PASSWORD)
       THEN Exit(1)
       ELSE pc' = "launch" /\ UNCHANGED exitCode
  /\ UNCHANGED <<cfgVars, urlMarker, engineVars, scanVars, screenshots, steps, error>>

\* lines 227-236: whether the snapshot file is handed to browser.newContext
SuppliesSavedState == ~USE_PERSISTENT_CONTEXT /\ savedStateFile

\* Step 3, lines 74-261: the inner `let persistentContext` receives the
\* persistent context; the outer one keeps its null.  In snapshot mode the
\* try block of lines 228-233 holds only the assignment of the path; the file
\* is read by browser.newContext (line 236), outside that block, whose
\* rejection for an unreadable or malformed file goes to the catch block of
\* performZohoCheckin.
LaunchBrowser ==
  /\ pc = "launch"
  /\ IF USE_PERSISTENT_CONTEXT
       THEN /\ innerContext' = "open"
            /\ browser' = Null
            /\ steps' = steps \cup {"launch"}
            /\ pc' = "goto_login"
            /\ UNCHANGED error
       ELSE /\ browser' = "open"
            /\ UNCHANGED innerContext
            /\ \E readable \in BOOLEAN :
                 IF SuppliesSavedState /\ ~readable
                   THEN /\ steps' = steps \cup {"launch", "saved_state_unreadable"}
                        /\ Throw("storage_state_unreadable")
                   ELSE /\ steps' = steps \cup {"launch"}
                        /\ pc' = "goto_login"
                        /\ UNCHANGED error
  /\ UNCHANGED <<cfgVars, urlMarker, persistentContext, scanVars, screenshots,
                 exitCode>>

\* Step 4, lines 263-283: page.goto either times out (throws) or lands
GotoLogin ==
  /\ pc = "goto_login"
  /\ steps' = steps \cup {"goto_login"}
  /\ \E ok \in BOOLEAN :
       IF ok THEN pc' = "inspect" /\ UNCHANGED error
             ELSE Throw("navigation_timeout")
  /\ UNCHANGED <<cfgVars, urlMarker, engineVars, scanVars, screenshots, exitCode>>

\* Step 5, lines 285-299 and 334-336: the address decides whether to log in
InspectUrl ==
  /\ pc = "inspect"
  /\ \E currentUrl \in Urls :
       /\ urlMarker' = [urlMarker EXCEPT !.landing = MarkerIn(currentUrl)]
       /\ IF IsLoggedIn(currentUrl)
            THEN /\ steps' = steps \cup {"already_logged_in"}
                 /\ pc' = "nav_checkin"
            ELSE /\ steps' = steps \cup {"needs_login"}
                 /\ pc' = IF USE_GOOGLE_LOGIN THEN "google_login"
                                              ELSE "password_login"
  /\ UNCHANGED <<cfgVars, engineVars, scanVars, screenshots, error, exitCode>>

(***************************************************************************)
(* handleGoogleLogin, lines 492-580.                                       *)
(***************************************************************************)
\* what page.$(selector) and isVisible() can report for one selector
Presence == {"absent", "hidden", "visible"}

\* line 295 and lines 493-526
EnterGoogleLogin ==
  /\ pc = "google_login"
  /\ steps' = steps \cup {"handleGoogleLogin"}
  /\ selIdx' = 1
  /\ pc' = IF NumGoogleSelectors = 0 THEN "google_not_found"
                                     ELSE "google_scan"
  /\ UNCHANGED <<cfgVars, urlMarker, engineVars, googleVars, actionVars, pw,
                 screenshots, error, exitCode>>

\* one iteration of the loop of lines 527-559
GoogleScanStep ==
  /\ pc = "google_scan"
  /\ \E el \in Presence :
       IF el = "visible"
         THEN \* lines 536-550: click and break
              /\ googleFirstVisible' = selIdx
              /\ googleClicked' = selIdx
              /\ googleButtonFound' = TRUE
              /\ pc' = "google_oauth_wait"
              /\ UNCHANGED selIdx
         ELSE \* absent, or present but not visible: next selector
              /\ selIdx' = selIdx + 1
              /\ pc' = IF selIdx = NumGoogleSelectors THEN "google_not_found"
                                                      ELSE "google_scan"
              /\ UNCHANGED googleVars
  /\ UNCHANGED <<cfgVars, urlMarker, engineVars, actionVars, pw, screenshots, steps,
                 error, exitCode>>

\* lines 561-564: the list is exhausted, the diagnostic screenshot is taken
GoogleNotFoundScreenshot ==
  /\ pc = "google_not_found"
  /\ screenshots' = screenshots \cup {"google-button-not-found"}
  /\ pc' = "google_not_found_decide"
  /\ UNCHANGED <<cfgVars, urlMarker, engineVars, scanVars, steps, error, exitCode>>

\* line 567
ThrowsWhenGoogleButtonMissing == env.HEADED # "true"

\* lines 566-573
GoogleNotFoundDecide ==
  /\ pc = "google_not_found_decide"
  /\ IF ThrowsWhenGoogleButtonMissing
       THEN Throw("google_button_not_found") /\ UNCHANGED steps
       ELSE /\ steps' = steps \cup {"manual_click_wait"}
            /\ pc' = "google_oauth_wait"
            /\ UNCHANGED error
  /\ UNCHANGED <<cfgVars, urlMarker, engineVars, scanVars, screenshots, exitCode>>

\* lines 576-580: the last wait, then the function returns and its locals go
GoogleOauthWait ==
  /\ pc = "google_oauth_wait"
  /\ pc' = "post_login"
  /\ selIdx' = 0
  /\ googleButtonFound' = FALSE
  /\ googleFirstVisible' = 0
  /\ googleClicked' = 0
  /\ UNCHANGED <<cfgVars, urlMarker, engineVars, actionVars, pw, screenshots, steps,
                 error, exitCode>>

(***************************************************************************)
(* handlePasswordLogin, lines 585-705.                                     *)
(***************************************************************************)
EmailSelectorCount == 6
NextSelectorCount == 5
PasswordSelectorCount == 4
SubmitSelectorCount == 5

\* what a page shows for each selector of a list of n selectors
Pages(n) == [1..n -> Presence]

\* the first selector of the list whose element is of one of the kinds, or 0
FirstOf(page, kinds) ==
  IF \E i \in DOMAIN page : page[i] \in kinds
    THEN CHOOSE i \in DOMAIN page :
           /\ page[i] \in kinds
           /\ \A j \in DOMAIN page : j < i => page[j] \notin kinds
    ELSE 0

\* an identifier loop whose fill() succeeds on any element page.$ returns
EmailFieldFilledFirstPresent(page) == FirstOf(page, {"hidden", "visible"})

\* lines 604-616: the loop fills the first element that page.$ returns and
\* whose fill() does not throw; fill() waits for the element to be visible and
\* throws on its timeout when it is not, which the per-selector catch swallows
EmailFieldFilled(page) == FirstOf(page, {"visible"})

\* the first selector of the list with an element at all
FirstPresent(page) == FirstOf(page, {"hidden", "visible"})

\* lines 631-643, 657-669, 686-698: element present and isVisible()
FirstVisible(page) == FirstOf(page, {"visible"})

\* lines 586-591: the wait for the identifier input may time out
EnterPasswordLogin ==
  /\ pc = "password_login"
  /\ steps' = steps \cup {"handlePasswordLogin"}
  /\ \E ok \in BOOLEAN :
       IF ok THEN pc' = "pw_email" /\ UNCHANGED error
             ELSE Throw("wait_for_selector_timeout")
  /\ UNCHANGED <<cfgVars, urlMarker, engineVars, scanVars, screenshots, exitCode>>

\* lines 593-620
PwFillEmail ==
  /\ pc = "pw_email"
  /\ \E page \in Pages(EmailSelectorCount) :
       /\ pw' = [pw EXCEPT !.emailFilled = EmailFieldFilled(page),
                           !.emailFirstVisible = FirstVisible(page),
                           !.emailFirstPresent = FirstPresent(page)]
       /\ IF EmailFieldFilled(page) = 0
            THEN Throw("no_email_field")
            ELSE pc' = "pw_next" /\ UNCHANGED error
  /\ UNCHANGED <<cfgVars, urlMarker, engineVars, selIdx, googleVars, actionVars,
                 screenshots, steps, exitCode>>

\* lines 622-643: at most one next/continue control is clicked
PwClickNext ==
  /\ pc = "pw_next"
  /\ \E page \in Pages(NextSelectorCount) :
       pw' = [pw EXCEPT !.nextClicks =
                IF FirstVisible(page) = 0 THEN 0 ELSE 1]
  /\ pc' = "pw_password"
  /\ UNCHANGED <<cfgVars, urlMarker, engineVars, selIdx, googleVars, actionVars,
                 screenshots, steps, error, exitCode>>

\* lines 645-673
PwFillPassword ==
  /\ pc = "pw_password"
  /\ \E page \in Pages(PasswordSelectorCount) :
       /\ pw' = [pw EXCEPT !.passwordFilled = FirstVisible(page),
                           !.passwordFirstVisible = FirstVisible(page)]
       /\ IF FirstVisible(page) = 0
            THEN Throw("no_password_field")
            ELSE pc' = "pw_submit" /\ UNCHANGED error
  /\ UNCHANGED <<cfgVars, urlMarker, engineVars, selIdx, googleVars, actionVars,
                 screenshots, steps, exitCode>>

\* a fallback that presses the key whether or not a control was clicked
PressesEnterAlways(submitted) == TRUE

\* line 700: the form-submit key is pressed only when nothing was clicked
PressesEnter(submitted) == ~submitted

\* lines 675-704: what was done to submit, given whether a visible submit
\* control was found and clicked
Submission(submitted) ==
  IF submitted
    THEN IF PressesEnter(submitted) THEN "click_and_enter" ELSE "click"
    ELSE IF PressesEnter(submitted) THEN "enter" ELSE "no"

\* lines 675-704: click the first visible submit control, else press Enter
PwSubmit ==
  /\ pc = "pw_submit"
  /\ \E page \in Pages(SubmitSelectorCount) :
       pw' = [pw EXCEPT !.submitted = Submission(FirstVisible(page) # 0)]
  /\ pc' = "pw_return"
  /\ UNCHANGED <<cfgVars, urlMarker, engineVars, selIdx, googleVars, actionVars,
                 screenshots, steps, error, exitCode>>

\* line 705: the function returns and its locals go
PwReturn ==
  /\ pc = "pw_return"
  /\ pw' = NoPasswordLogin
  /\ pc' = "post_login"
  /\ UNCHANGED <<cfgVars, urlMarker, engineVars, selIdx, googleVars, actionVars,
                 screenshots, steps, error, exitCode>>

(***************************************************************************)
(* performZohoCheckin, the post-login check and the session save.          *)
(***************************************************************************)
\* lines 301-311: the address is read again after the settle delay
PostLoginCheck ==
  /\ pc = "post_login"
  /\ \E postLoginUrl \in Urls :
       /\ urlMarker' = [urlMarker EXCEPT !.postLogin = MarkerIn(postLoginUrl)]
       /\ IF StillOnLoginPage(postLoginUrl)
            THEN /\ steps' = steps \cup {"post_login_check"}
                 /\ screenshots' = screenshots \cup {"login-failed"}
                 /\ pc' = "login_failed"
            ELSE /\ steps' = steps \cup {"post_login_check"}
                 /\ pc' = "save_state"
                 /\ UNCHANGED screenshots
  /\ UNCHANGED <<cfgVars, engineVars, scanVars, error, exitCode>>

\* a grace test with the two conditions joined by "or"
ManualLoginGraceEither == USE_GOOGLE_LOGIN \/ ~useHeadless

\* line 313
ManualLoginGraceApplies == USE_GOOGLE_LOGIN /\ ~useHeadless

\* lines 313-319
LoginFailed ==
  /\ pc = "login_failed"
  /\ IF ManualLoginGraceApplies
       THEN /\ steps' = steps \cup {"manual_login_wait"}
            /\ pc' = "save_state"
            /\ UNCHANGED error
       ELSE Throw("login_failed") /\ UNCHANGED steps
  /\ UNCHANGED <<cfgVars, urlMarker, engineVars, scanVars, screenshots, exitCode>>

\* lines 322-333: the write of the snapshot may fail, which is only logged
SaveState ==
  /\ pc = "save_state"
  /\ IF ~USE_PERSISTENT_CONTEXT
       THEN \E written \in BOOLEAN :
              steps' = IF written THEN steps \cup {"storage_state_saved"}
                                  ELSE steps \cup {"storage_state_failed"}
       ELSE UNCHANGED steps
  /\ pc' = "nav_checkin"
  /\ UNCHANGED <<cfgVars, urlMarker, engineVars, scanVars, screenshots, error, exitCode>>

(***************************************************************************)
(* performZohoCheckin, steps 6 to 8.                                       *)
(***************************************************************************)
\* Step 6, lines 338-348.  In the already-logged-in branch nothing awaits
\* between the two reads of page.url(), so the address is still no login page.
NavigateToCheckin ==
  /\ pc = "nav_checkin"
  /\ \E pageUrl \in Urls, ok \in BOOLEAN :
       /\ "already_logged_in" \in steps => IsLoggedIn(pageUrl)
       /\ IF NeedsCheckinNavigation(pageUrl)
            THEN /\ steps' = steps \cup {"goto_checkin"}
                 /\ IF ok THEN /\ pc' = "action_scan"
                               /\ selIdx' = 1
                               /\ UNCHANGED error
                         ELSE /\ Throw("navigation_timeout")
                              /\ UNCHANGED selIdx
            ELSE /\ steps' = steps \cup {"already_on_checkin_page"}
                 /\ pc' = "action_scan"
                 /\ selIdx' = 1
                 /\ UNCHANGED error
  /\ UNCHANGED <<cfgVars, urlMarker, engineVars, googleVars, actionVars, pw,
                 screenshots, exitCode>>

\* The text of a control and its aria-label, by the markers they contain
\* after toLowerCase(); getAttribute yields null for an absent attribute
\* (NullLabel).
Texts == { {}, {"check-in"}, {"check-out", "out"}, {"out"} }
NullLabel == {Null}
Labels == { NullLabel, {}, {"check-in"}, {"check-out", "out"} }

\* what one action selector can show: no element, a hidden one, a visible one
ActionElements ==
  {[kind |-> "absent"], [kind |-> "hidden"]}
  \cup [kind : {"visible"}, text : Texts, label : Labels]

\* lines 392-399: ariaLabel.toLowerCase() is evaluated only when the text does
\* not contain 'check-in', and throws a TypeError on a null label
ClassifyThrows(text, label) ==
  ~includes(text, "check-in") /\ label = NullLabel

\* lines 392-399
Classify(text, label) ==
  IF includes(text, "check-in") \/ includes(label, "check-in")
    THEN "check-in"
    ELSE IF includes(text, "check-out") \/ includes(label, "check-out")
           THEN "check-out"
           ELSE IF includes(text, "out") THEN "check-out" ELSE "check-in"

\* where the loop of lines 378-427 goes after the selector at selIdx
NextActionSelector ==
  /\ selIdx' = selIdx + 1
  /\ pc' = IF selIdx >= NumActionSelectors THEN "after_scan"
                                           ELSE "action_scan"

\* how the rest of the iteration goes once click() has resolved: the settle
\* waits of lines 413-416 pass ("settled"), or one of them rejects because the
\* page was closed or has crashed meanwhile ("page_gone"); the text read of
\* line 417 has its own catch
AfterClick == {"settled", "page_gone"}

\* a page on which the calls of a later iteration never reject
SelectorRejectsNever == FALSE

\* lines 382-384: on a closed or crashed page page.$ rejects, which the
\* per-selector catch swallows
SelectorRejects == pageGone

\* Step 7, one iteration of the loop of lines 378-427
ActionScanStep ==
  /\ pc = "action_scan"
  /\ steps' = steps \cup {"action_resolver"}
  /\ IF SelectorRejects
       THEN /\ NextActionSelector
            /\ UNCHANGED actionVars
       ELSE \E el \in ActionElements :
         IF el.kind = "visible"
           THEN /\ actionFirstVisible' =
                     IF actionFirstVisible = 0 THEN selIdx
                                               ELSE actionFirstVisible
                /\ IF ClassifyThrows(el.text, el.label)
                     THEN \* caught at lines 423-426: try the next selector
                          /\ NextActionSelector
                          /\ UNCHANGED <<actionPerformed, actionType,
                                         actionClicked, actionClicks, pageGone>>
                     ELSE \* lines 401-420: click, the waits, then break
                          /\ actionType' = Classify(el.text, el.label)
                          /\ actionClicked' = selIdx
                          /\ actionClicks' = actionClicks + 1
                          /\ actionPerformed' = TRUE
                          /\ \E rest \in AfterClick :
                               IF rest = "settled"
                                 THEN /\ pc' = "after_scan"
                                      /\ UNCHANGED <<selIdx, pageGone>>
                                 ELSE \* caught at lines 423-426
                                      /\ pageGone' = TRUE
                                      /\ NextActionSelector
           ELSE /\ NextActionSelector
                /\ UNCHANGED actionVars
  /\ UNCHANGED <<cfgVars, urlMarker, engineVars, googleVars, pw, screenshots, error,
                 exitCode>>

\* a not-found test that never notices the missing action
ActionNotFoundNever == FALSE

\* line 429
ActionNotFound == ~actionPerformed

\* lines 429-435
AfterActionScan ==
  /\ pc = "after_scan"
  /\ screenshots' = IF ActionNotFound
                      THEN screenshots \cup {"checkin-not-found"}
                      ELSE screenshots
  /\ pc' = "final_screenshot"
  /\ UNCHANGED <<cfgVars, urlMarker, engineVars, scanVars, steps, error, exitCode>>

\* Step 8, lines 437-442: on a closed page the screenshot rejects, which the
\* catch block of performZohoCheckin receives
FinalScreenshot ==
  /\ pc = "final_screenshot"
  /\ IF pageGone
       THEN Throw("page_closed") /\ UNCHANGED screenshots
       ELSE /\ screenshots' = screenshots \cup {"zoho-checkin"}
            /\ pc' = "finally"
            /\ UNCHANGED error
  /\ UNCHANGED <<cfgVars, urlMarker, engineVars, scanVars, steps, exitCode>>

(***************************************************************************)
(* performZohoCheckin's catch and finally, and the main entry.             *)
(***************************************************************************)
\* lines 444-462: the error screenshot is attempted only with a `browser`, and
\* its own failure is swallowed; then process.exit(1) ends the process
Catch ==
  /\ pc = "catch"
  /\ \E taken \in BOOLEAN :
       screenshots' = IF browser # Null /\ taken
                        THEN screenshots \cup {"error"}
                        ELSE screenshots
  /\ Exit(1)
  /\ UNCHANGED <<cfgVars, urlMarker, engineVars, scanVars, steps, error>>

\* lines 463-473: the outer variables decide what is closed
Finally ==
  /\ pc = "finally"
  /\ IF browser # Null
       THEN browser' = "closed" /\ UNCHANGED persistentContext
       ELSE /\ persistentContext' =
                 IF persistentContext # Null THEN "closed"
                                             ELSE persistentContext
            /\ UNCHANGED browser
  /\ pc' = "main_then"
  /\ UNCHANGED <<cfgVars, urlMarker, innerContext, scanVars, screenshots, steps, error,
                 exitCode>>

\* an exit code that tells whether the action was performed
ExitCodeByOutcome == IF actionPerformed THEN 0 ELSE 1

\* line 481: the exit code of a run whose promise resolved
CompletionExitCode == 0

\* lines 477-482
MainThen ==
  /\ pc = "main_then"
  /\ Exit(CompletionExitCode)
  /\ UNCHANGED <<cfgVars, urlMarker, engineVars, scanVars, screenshots, steps, error>>

\* the run's variables while another component is under study
IdleRun ==
  /\ launcher = "manual"
  /\ env = [ZOHO_EMAIL |-> Undefined, ZOHO_PASSWORD |-> Undefined,
            USE_GOOGLE_LOGIN |-> Undefined,
            USE_PERSISTENT_CONTEXT |-> Undefined, HEADED |-> Undefined,
            OFFICE_WIFI_SSID |-> Undefined, HEADLESS |-> Undefined]
  /\ savedStateFile = FALSE
  /\ pc = "idle"
  /\ exitCode = -1
  /\ browser = Null
  /\ persistentContext = Null
  /\ innerContext = Null
  /\ screenshots = {}
  /\ steps = {}
  /\ error = "none"
  /\ selIdx = 0
  /\ googleButtonFound = FALSE
  /\ googleFirstVisible = 0
  /\ googleClicked = 0
  /\ actionPerformed = FALSE
  /\ actionType = "unknown"
  /\ actionFirstVisible = 0
  /\ actionClicked = 0
  /\ actionClicks = 0
  /\ pageGone = FALSE
  /\ pw = NoPasswordLogin
  /\ urlMarker = [landing |-> "unread", postLogin |-> "unread"]
  /\ wifiGate = "not_evaluated"

(***************************************************************************)
(* The monitor (unnamed/part_002): the polling scheduler.                  *)
(***************************************************************************)
\* lines 24-25 and 28
CHECKIN_TIME == [hour |-> 6, minute |-> 0]
CHECKOUT_TIME == [hour |-> 13, minute |-> 45]
WEEKDAYS == {1, 2, 3, 4, 5}

MinutesPerDay == 1440

\* lines 31-32: the markers start as null
NoDate == -1

\* Date accessors on a wall-clock reading t, in minutes since date 0, 00:00
DateOf(t) == t \div MinutesPerDay
getHours(t) == (t % MinutesPerDay) \div 60
getMinutes(t) == t % 60
getDay(t) == (epochDay + DateOf(t)) % 7
\* toDateString() names the calendar date
toDateString(t) == DateOf(t)

\* the times of day at which the model lets the timer fire
TickTimesOfDay ==
  { 0, 5 * 60 + 59, 6 * 60, 6 * 60 + 1, 13 * 60 + 44, 13 * 60 + 45,
    23 * 60 + 59 }
TickTimes == { d * MinutesPerDay + m : d \in 0..MaxDate, m \in TickTimesOfDay }

\* lines 45-50 and 72-77: weekday and the target's hour and minute
TimeMatches(t, target) ==
  /\ getDay(t) \in WEEKDAYS
  /\ getHours(t) = target.hour
  /\ getMinutes(t) = target.minute

\* a once-per-day test that only lets a cleared marker through
NotYetRunSinceReset(marker, t) == marker = NoDate

\* lines 52 and 79: the once-per-day test on the target's marker
NotYetRunToday(marker, t) == marker # toDateString(t)

\* a shouldRun function without the once-per-day test
ShouldRunEveryMatch(marker, t, target) == TimeMatches(t, target)

\* lines 37-59 and 64-86: the value shouldRunCheckin / shouldRunCheckout
\* returns when it reads the clock as t
ShouldRun(marker, t, target) ==
  TimeMatches(t, target) /\ NotYetRunToday(marker, t)

\* line 146
IsMidnight(t) == getHours(t) = 0 /\ getMinutes(t) = 0

\* runCheckinScript, lines 91-119: one more child process for the target
Spawn(sp, target, t) ==
  [sp EXCEPT ![<<target, DateOf(t)>>] = @ + 1]

\* one more matching tick for the target, observed for the properties
Matched(mt, target, t) ==
  [mt EXCEPT ![<<target, DateOf(t)>>] = IF @ = "none" THEN "one" ELSE "several"]

Targets == {"checkin", "checkout"}

InitSched ==
  /\ clock = 0
  /\ epochDay \in 0..6
  /\ lastCheckinDate = NoDate
  /\ lastCheckoutDate = NoDate
  /\ spawned = [x \in Targets \X (0..(MaxDate + 1)) |-> 0]
  /\ matches = [x \in Targets \X (0..(MaxDate + 1)) |-> "none"]
  /\ resets = {}
  /\ children = 0
  /\ lastChildEvent = "none"

IdleSched ==
  /\ clock = 0
  /\ epochDay = 0
  /\ lastCheckinDate = NoDate
  /\ lastCheckoutDate = NoDate
  /\ spawned = <<>>
  /\ matches = <<>>
  /\ resets = {}
  /\ children = 0
  /\ lastChildEvent = "none"

\* a loop whose timer waits for the spawned run to end
TimerFiresWhenNoChild == children = 0

\* lines 132 and 151: setInterval calls back for as long as the process
\* lives; spawn (lines 97-106) returns at once and nothing waits for the child
TimerFires == TRUE

\* the children alive after n calls of runCheckinScript more
Spawned(n) == children + n

\* The setInterval callback, lines 132-151.  The callback reads the clock
\* three times (line 133, then inside each shouldRun function); the reads are
\* moments apart, so a later read shows the same minute or the next one.
Tick ==
  \E now \in TickTimes, tIn \in {0, 1}, tOut \in {0, 1} :
    /\ TimerFires
    /\ now >= clock
    /\ tIn <= tOut
    /\ clock' = now
    /\ LET runIn == ShouldRun(lastCheckinDate, now + tIn, CHECKIN_TIME)
           runOut == ShouldRun(lastCheckoutDate, now + tOut, CHECKOUT_TIME)
           afterIn == IF runIn THEN Spawn(spawned, "checkin", now + tIn)
                               ELSE spawned
           afterOut == IF runOut THEN Spawn(afterIn, "checkout", now + tOut)
                                 ELSE afterIn
           seenIn == IF TimeMatches(now + tIn, CHECKIN_TIME)
                       THEN Matched(matches, "checkin", now + tIn)
                       ELSE matches
           seenOut == IF TimeMatches(now + tOut, CHECKOUT_TIME)
                        THEN Matched(seenIn, "checkout", now + tOut)
                        ELSE seenIn
       IN /\ spawned' = afterOut
          /\ matches' = seenOut
          /\ children' = Spawned((IF runIn THEN 1 ELSE 0)
                                  + (IF runOut THEN 1 ELSE 0))
          /\ IF IsMidnight(now)
               THEN /\ lastCheckinDate' = NoDate
                    /\ lastCheckoutDate' = NoDate
                    /\ resets' = resets \cup {DateOf(now)}
               ELSE /\ lastCheckinDate' =
                         IF runIn THEN toDateString(now + tIn)
                                  ELSE lastCheckinDate
                    /\ lastCheckoutDate' =
                         IF runOut THEN toDateString(now + tOut)
                                   ELSE lastCheckoutDate
                    /\ UNCHANGED resets
    /\ UNCHANGED <<epochDay, lastChildEvent, runVars, wifiVars>>

\* what the 'exit' handler logs for an exit code, lines 112-118
ExitLine(code) == IF code = 0 THEN "exit_zero" ELSE "exit_nonzero"

\* the child's 'exit' event, lines 112-118: the handler logs and nothing else
ChildExit ==
  /\ children > 0
  /\ \E code \in {0, 1} : lastChildEvent' = ExitLine(code)
  /\ children' = children - 1
  /\ UNCHANGED <<clock, epochDay, lastCheckinDate, lastCheckoutDate, spawned,
                 matches, resets, runVars, wifiVars>>

\* the child's 'error' event (the process could not be spawned), lines
\* 108-110: the handler logs and nothing else
ChildError ==
  /\ children > 0
  /\ lastChildEvent' = "spawn_error"
  /\ children' = children - 1
  /\ UNCHANGED <<clock, epochDay, lastCheckinDate, lastCheckoutDate, spawned,
                 matches, resets, runVars, wifiVars>>

(***************************************************************************)
(* The Wi-Fi checker (unnamed/part_001).  Strings are sequences of         *)
(* characters.                                                             *)
(***************************************************************************)
Alphabet == {"a", "b", " ", ","}

Strings(n) == UNION { [1..k -> Alphabet] : k \in 0..n }

\* String.prototype.trim
RECURSIVE TrimLeft(_)
TrimLeft(s) ==
  IF s # <<>> /\ Head(s) = " " THEN TrimLeft(Tail(s)) ELSE s

RECURSIVE TrimRight(_)
TrimRight(s) ==
  IF s # <<>> /\ s[Len(s)] = " " THEN TrimRight(SubSeq(s, 1, Len(s) - 1))
                                 ELSE s

trim(s) == TrimRight(TrimLeft(s))

\* String.prototype.split(','): the pieces between the commas, in order
RECURSIVE split(_)
split(s) ==
  IF \E i \in 1..Len(s) : s[i] = ","
    THEN LET i == CHOOSE k \in 1..Len(s) :
                    s[k] = "," /\ \A j \in 1..(k - 1) : s[j] # ","
         IN <<SubSeq(s, 1, i - 1)>> \o split(SubSeq(s, i + 1, Len(s)))
    ELSE <<s>>

NonEmpty(x) == Len(x) > 0

\* a list parser that forgets to trim the pieces
ParseSSIDListUntrimmed(s) == SelectSeq(split(s), NonEmpty)

\* line 274: split(',').map(trim).filter(length > 0)
ParseSSIDList(s) ==
  LET pieces == split(s)
  IN SelectSeq([i \in 1..Len(pieces) |-> trim(pieces[i])], NonEmpty)

\* Array.prototype.includes
Includes(list, x) == \E i \in 1..Len(list) : list[i] = x

\* the values isOnOfficeWiFi may be handed, by JavaScript type
ExpectedInputs ==
  [type : {"undefined", "zero", "number", "object"}, str : {<<>>},
   arr : {<<>>}]
  \cup [type : {"string"}, str : Strings(MaxExpectedLen), arr : {<<>>}]
  \cup [type : {"array"}, str : {<<>>},
         arr : { <<>>, << <<"a">> >>, << <<" ", "a">> >>,
                 << <<"a">>, <<"b">> >>, << <<"a", ",", "b">> >> }]

\* line 263: !expectedSSIDs
Falsy(x) ==
  \/ x.type \in {"undefined", "zero"}
  \/ x.type = "string" /\ x.str = <<>>

\* lines 270-278: a value that is neither an array nor a string is refused
InvalidFormat(x) == x.type \notin {"array", "string"}

\* lines 268-275: the list of office names
OfficeSSIDs(x) ==
  IF x.type = "array" THEN x.arr ELSE ParseSSIDList(x.str)

\* getCurrentWiFiSSID's null
NullSSID == <<Null>>

\* the network names a mechanism can report: non-empty, already trimmed
DetectedNames ==
  { s \in Strings(MaxNameLen) : s # <<>> /\ trim(s) = s }

\* the OS query mechanisms of getCurrentWiFiSSID, in the order it tries them:
\* networksetup on the interfaces to try (lines 37-99), system_profiler
\* (102-117), scutil --nc (120-165), scutil --prefs (168-183), wdutil
\* (189-213), airport (216-249)
Mechanisms ==
  <<"networksetup_1", "networksetup_2", "system_profiler", "scutil_nc",
    "scutil_prefs", "wdutil", "airport">>

\* what one mechanism yields: the command fails (execSync throws: no such
\* interface, no permission, no such tool), its output carries no usable name
\* (not associated, no pattern matches, or the value is filtered out), or it
\* carries a name
ProbeOutcomes ==
  {[kind |-> "error", ssid |-> <<>>], [kind |-> "no_name", ssid |-> <<>>]}
  \cup [kind : {"name"}, ssid : DetectedNames]

\* lines 109-114 and 151-156: the pattern (.+) also matches a value made of
\* blanks only, a truthy string, which trim() turns into the empty string; the
\* other mechanisms test ssid.length > 0 before they return
BlankValueMechanisms == {"system_profiler", "scutil_nc"}

\* the outcomes of the mechanism at position m
OutcomesOf(m) ==
  ProbeOutcomes
  \cup (IF Mechanisms[m] \in BlankValueMechanisms
          THEN {[kind |-> "blank", ssid |-> <<>>]}
          ELSE {})

\* the outcomes with which the mechanism returns from getCurrentWiFiSSID
Returns(outcome) == outcome.kind \in {"name", "blank"}

\* a scan that gives up at the first command that fails
NextMechanismAbortsOnError(m, outcome) ==
  IF outcome.kind = "error" THEN Len(Mechanisms) + 1 ELSE m + 1

\* the mechanism tried after mechanism m gave no name.  Line 35: a detected
\* interface is the only one networksetup is asked about.  A failing
\* `scutil --nc list` leaves the enclosing try block (line 184), which skips
\* the scutil --prefs attempt inside it.
NextMechanism(m, outcome) ==
  IF Mechanisms[m] = "networksetup_1" /\ wifiInterface # Null THEN m + 2
  ELSE IF Mechanisms[m] = "scutil_nc" /\ outcome.kind = "error" THEN m + 2
  ELSE m + 1

InitWifi ==
  /\ expectedSSIDs \in ExpectedInputs
  /\ wifiPc = "isOnOfficeWiFi"
  /\ mechanism = 0
  /\ wifiInterface = Null
  /\ probeLog = <<>>
  /\ currentSSID = NullSSID
  /\ wifiResult = "none"

IdleWifi ==
  /\ expectedSSIDs = [type |-> "undefined", str |-> <<>>, arr |-> <<>>]
  /\ wifiPc = "idle"
  /\ mechanism = 0
  /\ wifiInterface = Null
  /\ probeLog = <<>>
  /\ currentSSID = NullSSID
  /\ wifiResult = "none"

\* lines 263-283: the early returns of isOnOfficeWiFi
RejectsConfiguration(x) ==
  \/ Falsy(x)
  \/ InvalidFormat(x)
  \/ Len(OfficeSSIDs(x)) = 0

\* lines 262-285
WifiEnter ==
  /\ wifiPc = "isOnOfficeWiFi"
  /\ IF RejectsConfiguration(expectedSSIDs)
       THEN /\ wifiResult' = "false"
            /\ wifiPc' = "returned"
       ELSE /\ wifiPc' = "getCurrentWiFiSSID"
            /\ UNCHANGED wifiResult
  /\ UNCHANGED <<expectedSSIDs, mechanism, wifiInterface, probeLog,
                 currentSSID, runVars, schedVars>>

\* getCurrentWiFiSSID, lines 15-35: the hardware ports are listed to find the
\* Wi-Fi interface; a failing command or a listing without a Wi-Fi port leaves
\* wifiInterface null, and en0 and en1 are tried instead
WifiListPorts ==
  /\ wifiPc = "getCurrentWiFiSSID"
  /\ wifiInterface' \in {Null, "detected"}
  /\ mechanism' = 1
  /\ wifiPc' = "probe"
  /\ UNCHANGED <<expectedSSIDs, probeLog, currentSSID, wifiResult, runVars,
                 schedVars>>

\* getCurrentWiFiSSID, lines 37-252, one mechanism at a time: the first value
\* a mechanism returns is the result, and null after the last mechanism; the
\* locals go when the function returns
WifiProbe ==
  /\ wifiPc = "probe"
  /\ \E outcome \in OutcomesOf(mechanism) :
       IF Returns(outcome)
         THEN /\ currentSSID' = outcome.ssid
              /\ wifiPc' = "compare"
              /\ wifiInterface' = Null
              /\ probeLog' = <<>>
              /\ UNCHANGED mechanism
         ELSE /\ mechanism' = NextMechanism(mechanism, outcome)
              /\ UNCHANGED currentSSID
              /\ IF NextMechanism(mechanism, outcome) > Len(Mechanisms)
                   THEN /\ wifiPc' = "compare"
                        /\ wifiInterface' = Null
                        /\ probeLog' = <<>>
                   ELSE /\ wifiPc' = "probe"
                        /\ probeLog' =
                             Append(probeLog,
                                    [mech |-> Mechanisms[mechanism],
                                     kind |-> outcome.kind])
                        /\ UNCHANGED wifiInterface
  /\ UNCHANGED <<expectedSSIDs, wifiResult, runVars, schedVars>>

\* lines 287-307
IsMatch(ssid, x) ==
  IF ssid = NullSSID \/ ssid = <<>> THEN "false"
  ELSE IF Includes(OfficeSSIDs(x), ssid) THEN "true" ELSE "false"

WifiCompare ==
  /\ wifiPc = "compare"
  /\ wifiResult' = IsMatch(currentSSID, expectedSSIDs)
  /\ wifiPc' = "returned"
  /\ UNCHANGED <<expectedSSIDs, mechanism, wifiInterface, probeLog,
                 currentSSID, runVars, schedVars>>

(***************************************************************************)
(* Specification of the Wi-Fi checker.                                     *)
(***************************************************************************)
InitChecker == IdleRun /\ IdleSched /\ InitWifi

NextChecker ==
  \/ WifiEnter
  \/ WifiListPorts
  \/ WifiProbe
  \/ WifiCompare

SpecWifi == InitChecker /\ [][NextChecker]_vars

\* name is an entry of the comma-separated string str: it fills, up to
\* surrounding blanks, one maximal comma-free stretch str[l..r] of the string
IsEntryOfString(name, str) ==
  /\ name # <<>>
  /\ name[1] # " "
  /\ name[Len(name)] # " "
  /\ \E l \in 1..Len(str), r \in 1..Len(str), i \in 1..Len(str) :
       LET j == i + Len(name) - 1
       IN /\ l <= i
          /\ j <= r
          /\ l = 1 \/ str[l - 1] = ","
          /\ r = Len(str) \/ str[r + 1] = ","
          /\ \A k \in l..r : str[k] # ","
          /\ \A k \in l..(i - 1) : str[k] = " "
          /\ \A k \in (j + 1)..r : str[k] = " "
          /\ \A k \in 1..Len(name) : str[i + k - 1] = name[k]

\* name is one entry of the expected set
IsExpectedEntry(name, x) ==
  \/ x.type = "array" /\ \E i \in 1..Len(x.arr) : x.arr[i] = name
  \/ x.type = "string" /\ IsEntryOfString(name, x.str)

\* C5: isOnOfficeWiFi returns true exactly when a network name was detected
\* and equals one entry of the expected set (the entries of a string being
\* its comma-separated pieces, trimmed, the empty ones dropped); in every
\* other case, a missing, empty or invalid expected value and a failed
\* detection included, it returns false and does not throw.
C5_TrueIffDetectedNameIsExpected ==
  wifiPc = "returned" =>
    /\ wifiResult \in {"true", "false"}
    /\ wifiResult = "true" <=>
         ( /\ currentSSID # NullSSID
           /\ IsExpectedEntry(currentSSID, expectedSSIDs) )

\* the gate accepted a name that is a blank-padded entry of a list of several
C5_Witness ==
  /\ wifiPc = "returned"
  /\ wifiResult = "true"
  /\ expectedSSIDs.type = "string"
  /\ \E i, j \in 1..Len(expectedSSIDs.str) :
       expectedSSIDs.str[i] = "," /\ expectedSSIDs.str[j] = " "
  /\ mechanism > 1

(***************************************************************************)
(* Specification of the monitor.                                           *)
(***************************************************************************)
InitMonitor == IdleRun /\ InitSched /\ IdleWifi

NextMonitor ==
  \/ Tick
  \/ ChildExit
  \/ ChildError

SpecSched == InitMonitor /\ [][NextMonitor]_vars

\* C3: in the polling scheduler no target is spawned more than once on one
\* local calendar date, however many ticks of that date match its hour and
\* minute and whenever the midnight reset runs.
C3_AtMostOncePerDay ==
  \A x \in DOMAIN spawned : spawned[x] <= 1

\* a date that saw the midnight reset and then two ticks matching the check-in
\* time, with exactly one spawn
C3_Witness ==
  \E d \in 0..MaxDate :
    /\ d \in resets
    /\ matches[<<"checkin", d>>] = "several"
    /\ spawned[<<"checkin", d>>] = 1

\* C4: a target that fired on a date D fires again at the first matching
\* weekday tick of every later date, with or without a tick in the 00:00
\* minute in between: once a later date has seen a matching tick, it has its
\* spawn.
C4_FiresAgainAfterRollover ==
  \A target \in Targets : \A d \in 0..MaxDate :
    ( /\ matches[<<target, d>>] # "none"
      /\ \E e \in 0..MaxDate : e < d /\ spawned[<<target, e>>] >= 1 )
    => spawned[<<target, d>>] >= 1

\* the check-out target fired on two dates with no midnight reset after the
\* first: the marker still named the earlier date when the second came
C4_Witness ==
  \E e, d \in 0..MaxDate :
    /\ e < d
    /\ spawned[<<"checkout", e>>] = 1
    /\ spawned[<<"checkout", d>>] = 1
    /\ \A r \in resets : r <= e

(***************************************************************************)
(* Specification of one run.                                               *)
(***************************************************************************)
Init == InitRun /\ IdleSched /\ IdleWifi

Next ==
  \/ ValidateEmail
  \/ CheckSavedState
  \/ LaunchBrowser
  \/ GotoLogin
  \/ InspectUrl
  \/ EnterGoogleLogin
  \/ GoogleScanStep
  \/ GoogleNotFoundScreenshot
  \/ GoogleNotFoundDecide
  \/ GoogleOauthWait
  \/ EnterPasswordLogin
  \/ PwFillEmail
  \/ PwClickNext
  \/ PwFillPassword
  \/ PwSubmit
  \/ PwReturn
  \/ PostLoginCheck
  \/ LoginFailed
  \/ SaveState
  \/ NavigateToCheckin
  \/ ActionScanStep
  \/ AfterActionScan
  \/ FinalScreenshot
  \/ Catch
  \/ Finally
  \/ MainThen

Spec == Init /\ [][Next]_vars

(***************************************************************************)
(* Properties of one run.                                                  *)
(***************************************************************************)
\* the run has ended in the fatal way: exit code 1 (or is on its way there)
\* and the Action Resolver was never entered
FailedHard ==
  /\ pc \in {"catch", "exited"}
  /\ pc = "exited" => exitCode = 1
  /\ "action_resolver" \notin steps

\* C1: with ZOHO_EMAIL absent or empty the run exits with code 1 at its first
\* step, whatever the other options are: no browser is launched and no page
\* is navigated to.
C1_NoEmailExitsBeforeLaunch ==
  env.ZOHO_EMAIL \in {Undefined, ""} =>
    /\ pc \in {"start", "exited"}
    /\ pc = "exited" => exitCode = 1
    /\ browser = Null /\ innerContext = Null
    /\ steps \cap {"launch", "goto_login", "goto_checkin"} = {}

\* an empty identifier, every other option set, ended with exit code 1
C1_Witness ==
  /\ env.ZOHO_EMAIL = ""
  /\ env.ZOHO_PASSWORD = "secret"
  /\ env.USE_GOOGLE_LOGIN = "true"
  /\ env.HEADLESS = "true"
  /\ savedStateFile
  /\ pc = "exited"
  /\ exitCode = 1

\* C2: in both selector scans the element clicked belongs to the first
\* selector that showed a present and visible element, and the scan stops
\* there: no later selector's element is looked at (on a page that went away
\* after the click the later selectors can only reject).
C2_FirstVisibleIsClicked ==
  /\ googleFirstVisible # 0 =>
       googleClicked = googleFirstVisible /\ selIdx = googleClicked
  /\ actionFirstVisible # 0 =>
       /\ actionClicked = actionFirstVisible
       /\ selIdx = actionClicked \/ pageGone

\* C6: a headless OAuth run whose login page shows no visible OAuth control
\* takes the diagnostic screenshot and then fails: it never reaches the
\* Action Resolver and exits with code 1.
C6_HeadlessOAuthWithoutControlFails ==
  ( /\ env.HEADLESS = "true"
    /\ "google-button-not-found" \in screenshots )
  => /\ "action_resolver" \notin steps
     /\ pc = "exited" => exitCode = 1

\* C7: when no OAuth control is visible the headless toggle decides: a
\* headless run raises the login failure, a run that is not headless does not
\* raise it, waits the grace window and goes on to the post-login check.
C7_HeadlessToggleDecides ==
  ( /\ "google-button-not-found" \in screenshots
    /\ pc # "google_not_found_decide" )
  => IF env.HEADLESS = "true"
       THEN error = "google_button_not_found"
       ELSE /\ error # "google_button_not_found"
            /\ "manual_click_wait" \in steps

\* C8: when the address read after the first navigation holds no login-page
\* marker, no login step runs (no login function, no post-login check, no
\* session save) and the run goes straight to the action-page navigation and
\* the Action Resolver; only a failed navigation keeps it from the resolver.
C8_NoMarkerSkipsLogin ==
  urlMarker.landing = "no_marker" =>
    /\ steps \cap {"handleGoogleLogin", "handlePasswordLogin",
                   "post_login_check", "manual_click_wait",
                   "manual_login_wait", "storage_state_saved",
                   "storage_state_failed"} = {}
    /\ urlMarker.postLogin = "unread"
    /\ screenshots \cap {"login-failed", "google-button-not-found"} = {}
    /\ \/ pc = "nav_checkin"
       \/ "action_resolver" \in steps
       \/ pc = "action_scan"
       \/ pc \in {"catch", "exited"} /\ error = "navigation_timeout"
                                      /\ "goto_checkin" \in steps

\* an already authenticated run clicked the control and ended with code 0
C8_Witness ==
  /\ urlMarker.landing = "no_marker"
  /\ actionPerformed
  /\ pc = "exited"
  /\ exitCode = 0

\* C9: with an expected network configured, a run started by the polling
\* loop or by the OS trigger wrapper has passed the Wi-Fi gate before it
\* launches the browser, and a run whose gate failed reaches no resolver.
C9_WifiGateBeforeRun ==
  ( /\ env.OFFICE_WIFI_SSID # Undefined
    /\ launcher \in {"monitor", "wrapper"}
    /\ "launch" \in steps )
  => wifiGate = "passed"

\* C10: after a login attempt, an address that still holds a login-page
\* marker brings the login-failed screenshot and then, in OAuth mode with a
\* visible browser, the grace wait and the rest of the run; in every other
\* mode a fatal error and exit code 1.  An address without a marker lets the
\* run continue as authenticated.
C10_PostLoginCheck ==
  /\ urlMarker.postLogin = "marker" =>
       /\ "login-failed" \in screenshots
       /\ pc # "login_failed" =>
            IF USE_GOOGLE_LOGIN /\ env.HEADLESS # "true"
              THEN /\ "manual_login_wait" \in steps
                   /\ error # "login_failed"
              ELSE /\ error = "login_failed"
                   /\ FailedHard
  /\ urlMarker.postLogin = "no_marker" =>
       /\ "login-failed" \notin screenshots
       /\ "manual_login_wait" \notin steps
       /\ error # "login_failed"
       /\ pc # "login_failed"

\* an OAuth run with a visible browser stayed on the login page, waited the
\* grace window and went on to the Action Resolver
C10_Witness ==
  /\ urlMarker.postLogin = "marker"
  /\ "manual_login_wait" \in steps
  /\ "handleGoogleLogin" \in steps
  /\ "action_resolver" \in steps

\* C11: in snapshot mode the session snapshot is written only by a run whose
\* address, read after the login attempt, held no login-page marker; a run
\* still on the login page never writes it, and neither does a run in
\* persistent-profile mode.
C11_SnapshotOnlyWhenAuthenticated ==
  "storage_state_saved" \in steps =>
    /\ ~USE_PERSISTENT_CONTEXT
    /\ urlMarker.postLogin = "no_marker"

\* C12: when the action scan ends without a clicked control, the run takes the
\* checkin-not-found screenshot, raises nothing, takes the final screenshot
\* and ends with exit code 0.
C12_NotFoundIsRecordedNotRaised ==
  ( /\ "action_resolver" \in steps
    /\ ~actionPerformed
    /\ pc \notin {"action_scan", "after_scan"} )
  => /\ "checkin-not-found" \in screenshots
     /\ error = "none"
     /\ pc \in {"final_screenshot", "finally", "main_then", "exited"}
     /\ pc # "final_screenshot" => "zoho-checkin" \in screenshots
     /\ pc = "exited" => exitCode = 0

\* no selector of the list showed a visible element, and the run ended with
\* both screenshots and exit code 0
C12_Witness ==
  /\ "action_resolver" \in steps
  /\ actionFirstVisible = 0
  /\ ~actionPerformed
  /\ {"checkin-not-found", "zoho-checkin"} \subseteq screenshots
  /\ pc = "exited"
  /\ exitCode = 0

\* C13: a snapshot file that exists but cannot be read when the browsing
\* context is created only brings a warning: the run does not enter the
\* fatal-error path for it and goes on to the navigation.
C13_UnreadableSnapshotIsOnlyAWarning ==
  "saved_state_unreadable" \in steps =>
    /\ error # "storage_state_unreadable"
    /\ pc \notin {"catch", "exited"} \/ "goto_login" \in steps

\* C18: the password login is entered only with a configured password, OAuth
\* mode being selected whenever the password is absent: no password field is
\* filled without a password, and step 2 never ends the run for a missing
\* password.
C18_PasswordLoginHasPassword ==
  /\ ( \/ "handlePasswordLogin" \in steps
       \/ pc \in {"password_login", "pw_email", "pw_next", "pw_password",
                   "pw_submit", "pw_return"}
       \/ pw.passwordFilled # 0 )
     => Truthy(env.ZOHO_PASSWORD)
  /\ ( ~Truthy(env.ZOHO_PASSWORD) /\ "needs_login" \in steps )
     => ( "handleGoogleLogin" \in steps \/ pc = "google_login" )
  /\ ( pc = "exited" /\ "launch" \notin steps ) => ~Truthy(env.ZOHO_EMAIL)

\* with no OAuth flag and a password, the password login filled the password
\* field
C18_Witness ==
  /\ env.USE_GOOGLE_LOGIN = Undefined
  /\ env.ZOHO_PASSWORD = "secret"
  /\ pc = "pw_submit"
  /\ pw.passwordFilled # 0

\* C20: the first visible match is always classified, as check-in or as
\* check-out, whatever its text and its accessible label are.
C20_ClassificationIsTotal ==
  actionFirstVisible # 0 => actionType \in {"check-in", "check-out"}


\* C14: the polling loop goes on whatever becomes of the runs it spawned: the
\* timer callback can run with any number of children alive, failed or
\* exited, and a child's 'exit' or 'error' event changes neither the last-run
\* markers nor the clock nor the spawns.
C14_LoopIndependentOfChildren ==
  /\ [](ENABLED Tick)
  /\ [][children' < children =>
          UNCHANGED <<lastCheckinDate, lastCheckoutDate, clock, spawned,
                      resets>>]_vars

\* a child ended with a non-zero exit code, another one is still alive, and
\* the loop has spawned the check-in on two dates
C14_Witness ==
  /\ lastChildEvent = "exit_nonzero"
  /\ children >= 1
  /\ \E e, d \in 0..MaxDate :
       e < d /\ spawned[<<"checkin", e>>] = 1 /\ spawned[<<"checkin", d>>] = 1

\* C15: at no time are two runs spawned by the polling loop alive together.
C15_SpawnedRunsNeverOverlap == children <= 1

\* C19: on every weekday date, once the loop's clock has passed a target's
\* minute, the target has been spawned for that date.
C19_EveryWeekdayTargetFires ==
  \A d \in 0..MaxDate :
    /\ ( getDay(d * MinutesPerDay) \in WEEKDAYS
         /\ clock > d * MinutesPerDay + CHECKIN_TIME.hour * 60
                       + CHECKIN_TIME.minute )
       => spawned[<<"checkin", d>>] >= 1
    /\ ( getDay(d * MinutesPerDay) \in WEEKDAYS
         /\ clock > d * MinutesPerDay + CHECKOUT_TIME.hour * 60
                       + CHECKOUT_TIME.minute )
       => spawned[<<"checkout", d>>] >= 1

\* the position of a mechanism in the order of getCurrentWiFiSSID
MechanismIndex(name) ==
  CHOOSE k \in 1..Len(Mechanisms) : Mechanisms[k] = name

\* the mechanism at position k was tried in this call and gave no name
LoggedNoName(k) ==
  \E i \in 1..Len(probeLog) :
    /\ probeLog[i].mech = Mechanisms[k]
    /\ probeLog[i].kind \in {"error", "no_name"}

\* the mechanism at position k is not part of this call's order: the second
\* interface when one was detected, the preferences query when the scutil
\* listing failed
NotInThisOrder(k) ==
  \/ Mechanisms[k] = "networksetup_2" /\ wifiInterface # Null
  \/ /\ Mechanisms[k] = "scutil_prefs"
     /\ \E i \in 1..Len(probeLog) :
          probeLog[i] = [mech |-> "scutil_nc", kind |-> "error"]

C17_ReturnsNameOrNull ==
  wifiPc \in {"compare", "returned"} =>
    \/ currentSSID = NullSSID
    \/ currentSSID \in DetectedNames

\* C21: a visible control is never passed over: as soon as a selector has
\* shown a visible element, with or without an accessible label, the action
\* has been performed on it.
C21_VisibleControlNeverSkipped ==
  actionFirstVisible # 0 => actionPerformed /\ actionClicked # 0

\* C25: a run that completes without error has closed the browsing engine it
\* opened, the browser or the persistent context, when the process exits.
C25_EngineClosedOnCompletion ==
  ( pc = "exited" /\ exitCode = 0 ) =>
    /\ browser # "open"
    /\ innerContext # "open"
    /\ browser = "closed" \/ innerContext = "closed"

\* C26: a run that launched the browsing engine and then met a fatal error has
\* closed the engine when the process exits with code 1.
C26_EngineClosedAfterFatalError ==
  ( pc = "exited" /\ exitCode = 1 /\ "launch" \in steps ) =>
    browser = "closed" \/ innerContext = "closed"

C23_PasswordLoginOrder ==
  /\ pc \in {"password_login", "pw_email"} => pw = NoPasswordLogin
  /\ pw.nextClicks \in {0, 1}
  /\ pw.nextClicks = 1 => pw.emailFilled # 0
  /\ pc = "pw_next" =>
       pw.emailFilled # 0 /\ pw.nextClicks = 0 /\ pw.passwordFilled = 0
  /\ pc = "pw_password" => pw.emailFilled # 0 /\ pw.passwordFilled = 0
  /\ pw.passwordFilled # 0 =>
       pw.emailFilled # 0 /\ pc \in {"pw_submit", "pw_return"}
  /\ pc = "pw_submit" => pw.passwordFilled # 0 /\ pw.submitted = "no"
  /\ pc = "pw_return" => pw.submitted \in {"click", "enter"}
  /\ pw.submitted # "no" => pc = "pw_return" /\ pw.passwordFilled # 0
  /\ error = "no_email_field" =>
       pw.emailFilled = 0 /\ pw.nextClicks = 0 /\ pw.passwordFilled = 0
         /\ pw.submitted = "no"
  /\ error = "no_password_field" =>
       pw.passwordFilled = 0 /\ pw.submitted = "no"

\* identifier, a next control, password, and the form-submit key as the
\* submission
C23_Witness ==
  /\ pc = "pw_return"
  /\ pw.emailFilled # 0
  /\ pw.nextClicks = 1
  /\ pw.passwordFilled # 0
  /\ pw.submitted = "enter"

\* C24: within one run an action control is clicked at most once: once a
\* click has succeeded no later selector's element is clicked, also when a
\* wait after the click fails.
C24_AtMostOneClick ==
  /\ actionClicks <= 1
  /\ actionClicks = 1 <=> actionPerformed
  /\ actionPerformed => actionClicked # 0 /\ actionType # "unknown"

\* the settle wait failed after the click at the first selector, the scan
\* went through the later selectors, and there is still one click
C24_Witness ==
  /\ pageGone
  /\ actionClicked = 1
  /\ actionClicks = 1
  /\ pc = "after_scan"

\* C27: a run whose selector scan ended without a click still exits with
\* code 0, as a run that performed the action does; exit code 1 comes only
\* from a missing identifier or from an exception that reached the catch
\* block.
C27_ExitCodeIgnoresOutcome ==
  pc = "exited" =>
    /\ exitCode \in {0, 1}
    /\ exitCode = 1 <=> ( error # "none" \/ ~Truthy(env.ZOHO_EMAIL) )
    /\ ( "action_resolver" \in steps /\ error = "none" ) => exitCode = 0

\* the scan went through the whole list without a click and the process
\* exited with code 0
C27_Witness ==
  /\ pc = "exited"
  /\ exitCode = 0
  /\ ~actionPerformed
  /\ selIdx > NumActionSelectors

====
